---- MODULE Spec2Model ----
(***************************************************************************)
(* State-machine model of ann.py, the SSE announcement scraper:            *)
(*   generate_yearly_date_ranges, fetch_all_announcements_paginated,       *)
(*   download_pdf_hybrid, batch_download_sequential and the __main__ body. *)
(* Python strings are modelled as sequences of one-token strings, so that  *)
(* re.sub, concatenation and os.path.basename are computed, not assumed.   *)
(* A datetime parsed with "%Y-%m-%d" is modelled by its proleptic         *)
(* Gregorian ordinal (the value datetime arithmetic works on).             *)
(***************************************************************************)
EXTENDS Integers, Sequences, FiniteSets, TLC

VARIABLES
    \* ---- __main__ ----
    START_DATE,      \* args.start, a date string <<y, m, d>>
    END_DATE,        \* args.end
    pc,              \* position of the __main__ body
    driver,          \* "none" (driver = None), "live", or "quit" (after driver.quit())
    quit_calls,      \* number of driver.quit() calls
    navigated,       \* the urls driver.get was called with, in order
    exc,             \* the exception the top-level except clause caught, or NoExc
    ranges,          \* outcome of generate_yearly_date_ranges (date_ranges)
    range_idx,       \* index of the for loop over date_ranges
    full_ann_list,
    requests_session,\* the cookies of the listing client (requests_session), <<>> before it exists
    \* ---- fetch_all_announcements_paginated ----
    page_num,
    all_announcements,
    title,           \* the variable "title": the parameter, reassigned at line 98
    last_request,    \* params of the call's last session.get, or NoRequest
    last_payload_len,\* len() of the data payload of the call's last parsed response, -1 if none
    last_outcome,    \* how the call's last session.get ended: "none", "request_error",
                     \* "json_error", "bad_shape", "empty" or "data"
    requested,       \* a listing request was issued
    served,          \* log: every extracted record with its range and page number
    \* ---- lines 95-102 applied to one payload ----
    current_page_data,
    announcements_on_page,
    \* ---- batch_download_sequential / download_pdf_hybrid ----
    dir_created,     \* os.makedirs(target_dir) was called
    i,               \* 1-based index of the for loop over announcements
    dpc,             \* position inside download_pdf_hybrid
    session,         \* the cookies of the call's own client (session), <<>> outside the call
    response,        \* the chunks of the streamed response body
    written,         \* number of chunks written by the current or last download
    files,           \* the file system: path -> content (sequence of chunks)
    attempts,        \* log: [url, filepath] of every download_pdf_hybrid call
    result,          \* result = download_pdf_hybrid(...): the last value returned, or None
    dl_error,        \* the exception raised inside the last call, or NoExc
    failures         \* number of calls in which an exception was raised

mainVars  == <<START_DATE, END_DATE, pc, driver, quit_calls, navigated, exc,
               ranges, range_idx, full_ann_list, requests_session>>
fetchVars == <<page_num, all_announcements, title, last_request,
               last_payload_len, last_outcome, requested, served>>
pageVars  == <<current_page_data, announcements_on_page>>
dlVars    == <<dir_created, i, dpc, session, response, written, files, attempts, result,
               dl_error, failures>>

vars == <<START_DATE, END_DATE, pc, driver, quit_calls, navigated, exc,
          ranges, range_idx, full_ann_list, requests_session,
          page_num, all_announcements, title, last_request,
          last_payload_len, last_outcome, requested, served,
          current_page_data, announcements_on_page,
          dir_created, i, dpc, session, response, written, files, attempts, result,
          dl_error, failures>>

(***************************************************************************)
(* Python values                                                           *)
(***************************************************************************)
None == <<"None">>

\* bool(v) for a value that is a string or None.
Truthy(v) == v # None /\ v # <<>>

\* bool(v) for a list.
ListTruthy(v) == v # <<>>

\* A match on the exception's own class only, base classes ignored.
IsExactly(e, cls) == cls = e.cls

\* isinstance(e, cls) for the exception classes the program distinguishes.
\* requests.exceptions.* derive from RequestException; all derive from Exception.
IsInstance(e, cls) ==
    \/ cls = "Exception"
    \/ cls = e.cls
    \/ cls = "RequestException" /\ e.cls \in {"ConnectionError", "Timeout", "HTTPError", "ChunkedEncodingError"}

\* An exception object: its class and its message.
Exc(cls, msg) == [cls |-> cls, msg |-> msg]

\* No exception.
NoExc == [cls |-> "", msg |-> <<>>]

(***************************************************************************)
(* datetime: strptime / strftime / timedelta arithmetic                    *)
(***************************************************************************)
\* datetime.MAXYEAR: the last year a datetime can hold.
MAXYEAR == 9999

\* The years the model draws input dates from: MAXYEAR - YearSpan .. MAXYEAR.
YearSpan == 3

IsLeap(y) == (y % 4 = 0) /\ ((y % 100 # 0) \/ (y % 400 = 0))

DaysInMonth(y, m) ==
    IF m = 2 THEN (IF IsLeap(y) THEN 29 ELSE 28)
    ELSE IF m \in {4, 6, 9, 11} THEN 30 ELSE 31

DaysInYear(y) == IF IsLeap(y) THEN 366 ELSE 365

\* Days in all years before year y.
DaysBeforeYear(y) ==
    LET p == y - 1 IN p * 365 + (p \div 4) - (p \div 100) + (p \div 400)

RECURSIVE DaysBeforeMonth(_, _)
DaysBeforeMonth(y, m) ==
    IF m = 1 THEN 0 ELSE DaysBeforeMonth(y, m - 1) + DaysInMonth(y, m - 1)

\* datetime(y, m, d) as an ordinal (0001-01-01 is day 1).
Ymd2Ord(y, m, d) == DaysBeforeYear(y) + DaysBeforeMonth(y, m) + d

\* The year an ordinal falls in.
OrdYear(n) ==
    LET n0   == n - 1
        n400 == n0 \div 146097
        r400 == n0 % 146097
        n100 == r400 \div 36524
        r100 == r400 % 36524
        n4   == r100 \div 1461
        r4   == r100 % 1461
        n1   == r4 \div 365
        y    == n400 * 400 + n100 * 100 + n4 * 4 + n1 + 1
    IN  IF n1 = 4 \/ n100 = 4 THEN y - 1 ELSE y

RECURSIVE OrdMonth(_, _, _)
OrdMonth(y, m, rest) ==
    IF rest <= DaysInMonth(y, m) THEN <<m, rest>>
    ELSE OrdMonth(y, m + 1, rest - DaysInMonth(y, m))

\* datetime.strptime(s, "%Y-%m-%d") for a well-formed date string.
strptime(s) == Ymd2Ord(s[1], s[2], s[3])

\* dt.strftime("%Y-%m-%d")
strftime(n) ==
    LET y  == OrdYear(n)
        md == OrdMonth(y, 1, n - DaysBeforeYear(y))
    IN  <<y, md[1], md[2]>>

\* datetime.max as an ordinal: adding a timedelta beyond it raises OverflowError.
MaxOrdinal == Ymd2Ord(MAXYEAR, 12, 31)

Min(a, b) == IF a <= b THEN a ELSE b

(***************************************************************************)
(* generate_yearly_date_ranges                                             *)
(***************************************************************************)
\* current_start = year_end + timedelta(days=1)
NextStart(year_end) == year_end + 1

\* The while loop: Returned(list) or Raised(OverflowError).
RECURSIVE YearlyLoop(_, _, _)
YearlyLoop(current_start, end_date, acc) ==
    IF ~(current_start <= end_date)
    THEN [kind |-> "return", value |-> acc]
    ELSE LET year_end    == Ymd2Ord(OrdYear(current_start), 12, 31)
             current_end == Min(year_end, end_date)
             acc2        == Append(acc, <<strftime(current_start), strftime(current_end)>>)
             next        == NextStart(year_end)
         IN  IF next > MaxOrdinal
             THEN [kind |-> "raise", value |-> Exc("OverflowError", <<"date value out of range">>)]
             ELSE YearlyLoop(next, end_date, acc2)

\* A loop that tests its condition after the first iteration.
generate_first_then_test(start_date_str, end_date_str) ==
    IF strptime(start_date_str) <= strptime(end_date_str)
    THEN YearlyLoop(strptime(start_date_str), strptime(end_date_str), <<>>)
    ELSE [kind |-> "return", value |-> <<<<start_date_str, end_date_str>>>>]

generate_yearly_date_ranges(start_date_str, end_date_str) ==
    YearlyLoop(strptime(start_date_str), strptime(end_date_str), <<>>)

(***************************************************************************)
(* Strings and paths                                                       *)
(***************************************************************************)
DOWNLOAD_DIR == <<"downloads">>
DEFAULT_SECURITY_CODE == <<"600036">>

\* args.output and args.title of the modelled run.
OUTPUT == <<"out">>
TITLE == <<"report">>

IllegalChars == {"\\", "/", "*", "?", ":", "\"", "<", ">", "|"}

KeepChar(c) == c \notin IllegalChars

\* re.sub(r'[\\/*?:"<>|]', "", filename)
clean_filename(filename) == SelectSeq(filename, KeepChar)

\* os.path.join(a, b) on POSIX.
path_join(a, b) ==
    IF b # <<>> /\ b[1] = "/" THEN b
    ELSE IF a = <<>> \/ a[Len(a)] = "/" THEN a \o b
    ELSE a \o <<"/">> \o b

\* os.path.basename(p): what follows the last "/".
basename(p) ==
    LET slashes == {k \in 1..Len(p) : p[k] = "/"}
        last    == IF slashes = {} THEN 0
                   ELSE CHOOSE k \in slashes : \A j \in slashes : j <= k
    IN  SubSeq(p, last + 1, Len(p))

target_dir == path_join(DOWNLOAD_DIR, OUTPUT)

\* filepath = os.path.join(target_dir, f"{clean_filename(ann['title'])}.pdf")
FilepathOf(ann) == path_join(target_dir, clean_filename(ann.title) \o <<".pdf">>)

(***************************************************************************)
(* fetch_all_announcements_paginated: one page's items (lines 95-102)      *)
(***************************************************************************)
StaticHost == <<"https://static.sse.com.cn">>

\* item.get(key): None when the key is missing.
DictGet(item, key) == IF key \in DOMAIN item THEN item[key] ELSE None

\* "or" in place of "and".
AcceptsEither(t, url_path) == Truthy(t) \/ Truthy(url_path)

\* if title and url_path:
Accepts(t, url_path) == Truthy(t) /\ Truthy(url_path)

\* full_url = f"https://static.sse.com.cn{url_path}"
FullUrl(url_path) == StaticHost \o url_path

\* The state of the two nested loops: the records so far and "title".
RECURSIVE ItemLoop(_, _, _)
ItemLoop(inner_list, k, st) ==
    IF k > Len(inner_list) THEN st
    ELSE LET t        == DictGet(inner_list[k], "TITLE")
             url_path == DictGet(inner_list[k], "URL")
             anns     == IF Accepts(t, url_path)
                         THEN Append(st.anns, [title |-> t, url |-> FullUrl(url_path)])
                         ELSE st.anns
         IN  ItemLoop(inner_list, k + 1, [anns |-> anns, title |-> t])

RECURSIVE InnerListLoop(_, _, _)
InnerListLoop(data, k, st) ==
    IF k > Len(data) THEN st
    ELSE InnerListLoop(data, k + 1, ItemLoop(data[k], 1, st))

\* announcements_on_page and "title" after lines 95-102.
ExtractPage(data, title0) == InnerListLoop(data, 1, [anns |-> <<>>, title |-> title0])

\* current_page_data = data.get('pageHelp', {}).get('data', [])
PageDataOf(json) ==
    LET pageHelp == IF "pageHelp" \in DOMAIN json THEN json["pageHelp"] ELSE <<>>
    IN  IF "data" \in DOMAIN pageHelp THEN pageHelp["data"] ELSE <<>>

(***************************************************************************)
(* Bounds and inputs                                                       *)
(***************************************************************************)
MaxItems  == 2   \* items in one page's data payload
MaxPage   == 2   \* last page number that carries data or a malformed body
MaxAnn    == 2   \* announcements the listing holds over the whole interval
MaxChunks == 2   \* chunks in one document's response body

Years == (MAXYEAR - YearSpan)..MAXYEAR

SampleDates ==
    {<<y, m, d>> : y \in Years, m \in {1, 2, 12}, d \in {1, 28, 29, 31}}

ValidDate(s) == s[2] \in 1..12 /\ s[3] \in 1..DaysInMonth(s[1], s[2])

\* The dates the splitter is applied to on its own.
InputDates == {s \in SampleDates : ValidDate(s)}

\* The --start / --end values of the modelled runs.
RunStartDates == {<<MAXYEAR - 2, 6, 15>>, <<MAXYEAR - 1, 6, 15>>}
RunEndDates   == {<<MAXYEAR - 1, 2, 10>>, <<MAXYEAR, 1, 1>>}

\* The items of the listing the modelled runs are served from.
ListedItems ==
    { [TITLE |-> <<"a", "/">>, URL |-> <<"/", "x">>],
      [TITLE |-> <<"b">>,      URL |-> <<"/", "y">>],
      [URL |-> <<"/", "x">>] }

\* The items lines 95-102 are applied to on their own.
Items ==
    ListedItems \cup
    { [TITLE |-> <<>>,         URL |-> <<"/", "x">>],
      [TITLE |-> <<"b">>,      URL |-> <<>>],
      [TITLE |-> <<"b">>] }

FlatListsOf(S) == UNION {[1..n -> S] : n \in 0..MaxItems}

\* The k-th smallest element of a set of numbers.
Kth(S, k) == CHOOSE x \in S : Cardinality({y \in S : y < x}) = k - 1

\* The list of lists that holds the items of f, a new inner list at each start.
Chunked(f, starts) ==
    LET S == {1} \cup starts
        n == Cardinality(S)
    IN  [j \in 1..n |->
            SubSeq(f, Kth(S, j), IF j = n THEN Len(f) ELSE Kth(S, j + 1) - 1)]

\* The data payloads over S: [], [[]] and every grouping of up to MaxItems items.
PayloadsOf(S) ==
    {<<>>, << <<>> >>} \cup
    UNION {{Chunked(f, st) : st \in SUBSET (2..Len(f))} : f \in FlatListsOf(S) \ {<<>>}}

Payloads == PayloadsOf(Items)
ListedPayloads == PayloadsOf(ListedItems)


\* The parsed JSON bodies: without pageHelp, without data, or with a payload.
JsonOf(shape, d) ==
    IF shape = "data" THEN [pageHelp |-> [data |-> d]]
    ELSE IF shape = "no data" THEN [pageHelp |-> [total |-> <<"0">>]]
    ELSE [result |-> <<>>]

\* The parsed bodies the modelled runs are served.
ListedBodies ==
    {JsonOf("data", d) : d \in ListedPayloads}
        \cup {JsonOf("no data", <<>>), JsonOf("no pageHelp", <<>>)}

\* The response body of a document: n chunks, the k-th chunk of the document
\* at url named by url and k.
Body(url, n) == [k \in 1..n |-> [url |-> url, k |-> k]]
BodiesOf(url) == {Body(url, n) : n \in 0..MaxChunks}

\* driver.get_cookies() on the entry page
CookieLists == {<<>>, <<[name |-> "sid", value |-> "1"]>>}

\* driver.get_cookies() on a document's page
DlCookieLists == {<<>>, <<[name |-> "sid", value |-> "2"]>>}

WebDriverError    == Exc("WebDriverException", <<"Message: ", "unknown error">>)
NoInitialCookie   == Exc("Exception", <<"no initial cookie from the browser">>)
NoDownloadCookie  == Exc("Exception", <<"no cookie from the browser">>)
HttpError         == Exc("HTTPError", <<"404 Client Error">>)
RequestErrors     == {HttpError, Exc("ConnectionError", <<"connection aborted">>)}
StreamError       == Exc("ChunkedEncodingError", <<"connection broken">>)
OpenError         == Exc("OSError", <<"[Errno 13] Permission denied">>)
ShapeError        == Exc("AttributeError", <<"object has no attribute 'get'">>)

NotCalled == [kind |-> "none", value |-> <<>>]

NoRequest == [sent |-> FALSE]

(***************************************************************************)
(* Initial states                                                          *)
(***************************************************************************)
FetchLocalsInit ==
    /\ page_num = 0
    /\ all_announcements = <<>>
    /\ title = None
    /\ last_request = NoRequest
    /\ last_payload_len = -1
    /\ last_outcome = "none"
    /\ requested = FALSE
    /\ served = <<>>

DownloadInit ==
    /\ dir_created = FALSE
    /\ i = 0
    /\ dpc = "idle"
    /\ session = <<>>
    /\ response = <<>>
    /\ written = 0
    /\ files = <<>>
    /\ attempts = <<>>
    /\ result = None
    /\ dl_error = NoExc
    /\ failures = 0

PageInit ==
    /\ current_page_data = <<>>
    /\ announcements_on_page = <<>>

\* The process at line 212: arguments parsed, driver = None.
Init ==
    /\ START_DATE \in RunStartDates
    /\ END_DATE \in RunEndDates
    /\ pc = "create_driver"
    /\ driver = "none"
    /\ quit_calls = 0
    /\ navigated = <<>>
    /\ exc = NoExc
    /\ ranges = NotCalled
    /\ range_idx = 0
    /\ full_ann_list = <<>>
    /\ requests_session = <<>>
    /\ FetchLocalsInit
    /\ PageInit
    /\ DownloadInit

(***************************************************************************)
(* __main__: bootstrap (lines 212-233)                                     *)
(***************************************************************************)
EntryUrl == <<"https://www.sse.com.cn/disclosure/listedinfo/announcement/">>

\* An exception reaches the top-level except clause.
RaiseToMain(e) ==
    /\ pc' = "except"
    /\ exc' = e

\* driver = webdriver.Chrome(options=chrome_options)
CreateDriver ==
    /\ pc = "create_driver"
    /\ driver' = "live"
    /\ pc' = "boot_get"
    /\ UNCHANGED <<START_DATE, END_DATE, requests_session, quit_calls, navigated, exc, ranges,
                   range_idx, full_ann_list, fetchVars, pageVars, dlVars>>

CreateDriverFails ==
    /\ pc = "create_driver"
    /\ RaiseToMain(WebDriverError)
    /\ UNCHANGED <<START_DATE, END_DATE, requests_session, driver, quit_calls, navigated, ranges,
                   range_idx, full_ann_list, fetchVars, pageVars, dlVars>>

\* driver.get(entry page); time.sleep(5)
BootstrapGet ==
    /\ pc = "boot_get"
    /\ navigated' = Append(navigated, EntryUrl)
    /\ pc' = "boot_cookies"
    /\ UNCHANGED <<START_DATE, END_DATE, requests_session, driver, quit_calls, exc, ranges,
                   range_idx, full_ann_list, fetchVars, pageVars, dlVars>>

BootstrapGetFails ==
    /\ pc = "boot_get"
    /\ navigated' = Append(navigated, EntryUrl)
    /\ RaiseToMain(WebDriverError)
    /\ UNCHANGED <<START_DATE, END_DATE, requests_session, driver, quit_calls, ranges,
                   range_idx, full_ann_list, fetchVars, pageVars, dlVars>>

\* cookies = driver.get_cookies(); if not cookies: raise; build requests_session
BootstrapCookies ==
    /\ pc = "boot_cookies"
    /\ \E cookies \in CookieLists :
          IF ~ListTruthy(cookies)
          THEN RaiseToMain(NoInitialCookie) /\ UNCHANGED requests_session
          ELSE pc' = "split" /\ exc' = exc /\ requests_session' = cookies
    /\ UNCHANGED <<START_DATE, END_DATE, driver, quit_calls, navigated, ranges,
                   range_idx, full_ann_list, fetchVars, pageVars, dlVars>>

(***************************************************************************)
(* __main__: split and fetch (lines 235-247)                               *)
(***************************************************************************)
\* date_ranges = generate_yearly_date_ranges(START_DATE, END_DATE)
MainSplit ==
    /\ pc = "split"
    /\ LET r == generate_yearly_date_ranges(START_DATE, END_DATE)
       IN  /\ ranges' = r
           /\ IF r.kind = "raise" THEN RaiseToMain(r.value)
              ELSE pc' = "for_range" /\ exc' = exc
    /\ range_idx' = 1
    /\ UNCHANGED <<START_DATE, END_DATE, requests_session, driver, quit_calls, navigated,
                   full_ann_list, fetchVars, pageVars, dlVars>>

\* for start, end in date_ranges: fetch_all_announcements_paginated(...) is entered
CallFetch ==
    /\ pc = "for_range"
    /\ range_idx <= Len(ranges.value)
    /\ pc' = "fetch"
    /\ page_num' = 1
    /\ all_announcements' = <<>>
    /\ title' = TITLE
    /\ last_request' = NoRequest
    /\ last_payload_len' = -1
    /\ last_outcome' = "none"
    /\ UNCHANGED <<START_DATE, END_DATE, requests_session, driver, quit_calls, navigated, exc, ranges,
                   range_idx, full_ann_list, requested, served, pageVars, dlVars>>

\* The params dictionary of lines 66-76.
Params ==
    [START_DATE    |-> ranges.value[range_idx][1],
     END_DATE      |-> ranges.value[range_idx][2],
     SECURITY_CODE |-> DEFAULT_SECURITY_CODE,
     beginPage     |-> page_num,
     pageNo        |-> page_num,
     TITLE         |-> title]

\* The records of one page, each with the range and the page it came from.
Tagged(anns, r, p) == [k \in 1..Len(anns) |-> [range |-> r, page |-> p, ann |-> anns[k]]]

\* A test for "no usable record on the page" in place of "no data".
PageHasNoRecord(data) == ExtractPage(data, None).anns = <<>>

\* A loop without the break.
NeverEmpty(data) == FALSE

\* if not current_page_data: break
PageIsEmpty(data) == ~ListTruthy(data)

\* Insertion at the front of the list.
ExtendAtFront(list, more) == more \o list

\* all_announcements.extend(announcements_on_page)
Extend(list, more) == list \o more

\* The call is left: its local variables no longer exist.
LocalsDie ==
    /\ page_num' = 0
    /\ all_announcements' = <<>>
    /\ title' = None
    /\ last_request' = NoRequest

\* session.get or raise_for_status raises a RequestException: sleep, same page again
FetchRequestFails ==
    /\ pc = "fetch"
    /\ \E e \in RequestErrors :
          IF IsInstance(e, "RequestException")
          THEN UNCHANGED <<pc, exc>>
          ELSE RaiseToMain(e)
    /\ last_request' = Params
    /\ last_outcome' = "request_error"
    /\ requested' = TRUE
    /\ UNCHANGED <<START_DATE, END_DATE, requests_session, driver, quit_calls, navigated, ranges,
                   range_idx, full_ann_list, page_num, all_announcements, title,
                   last_payload_len, served, pageVars, dlVars>>

\* A handler that asks for the same page again.
FetchJsonErrorRetries ==
    /\ pc = "fetch"
    /\ page_num <= MaxPage
    /\ last_request' = Params
    /\ last_outcome' = "json_error"
    /\ requested' = TRUE
    /\ UNCHANGED <<START_DATE, END_DATE, requests_session, pc, driver, quit_calls, navigated, exc,
                   ranges, range_idx, full_ann_list, page_num, all_announcements, title,
                   last_payload_len, served, pageVars, dlVars>>

\* response.json() raises json.JSONDecodeError: the page is skipped
FetchJsonError ==
    /\ pc = "fetch"
    /\ page_num <= MaxPage
    /\ last_request' = Params
    /\ last_outcome' = "json_error"
    /\ requested' = TRUE
    /\ page_num' = page_num + 1
    /\ UNCHANGED <<START_DATE, END_DATE, requests_session, pc, driver, quit_calls, navigated, exc,
                   ranges, range_idx, full_ann_list, all_announcements, title,
                   last_payload_len, served, pageVars, dlVars>>

\* The body parses but is not of the expected shape: .get or iteration raises
\* an exception that no clause of the function catches.
FetchBadShape ==
    /\ pc = "fetch"
    /\ last_outcome' = "bad_shape"
    /\ requested' = TRUE
    /\ IF IsInstance(ShapeError, "RequestException")
       THEN /\ last_request' = Params
            /\ UNCHANGED <<pc, exc, page_num, all_announcements, title>>
       ELSE /\ RaiseToMain(ShapeError)
            /\ LocalsDie
    /\ UNCHANGED <<START_DATE, END_DATE, requests_session, driver, quit_calls, navigated, ranges,
                   range_idx, full_ann_list, last_payload_len, served, pageVars,
                   dlVars>>

\* A parsed response whose payload is empty: break, return all_announcements;
\* the caller extends full_ann_list and moves to the next range.
FetchEmptyReturn ==
    /\ pc = "fetch"
    /\ \E json \in ListedBodies :
          LET data == PageDataOf(json)
          IN  /\ PageIsEmpty(data)
              /\ last_payload_len' = Len(data)
    /\ last_outcome' = "empty"
    /\ requested' = TRUE
    /\ full_ann_list' = Extend(full_ann_list, all_announcements)
    /\ range_idx' = range_idx + 1
    /\ pc' = "for_range"
    /\ LocalsDie
    /\ UNCHANGED <<START_DATE, END_DATE, requests_session, driver, quit_calls, navigated, exc, ranges,
                   served, pageVars, dlVars>>

\* A parsed response with data: lines 95-107.
FetchPage ==
    /\ pc = "fetch"
    /\ page_num <= MaxPage
    /\ \E json \in ListedBodies :
          LET data == PageDataOf(json)
              st   == ExtractPage(data, title)
          IN  /\ ~PageIsEmpty(data)
              /\ Len(full_ann_list) + Len(all_announcements) + Len(st.anns) <= MaxAnn
              /\ all_announcements' = Extend(all_announcements, st.anns)
              /\ title' = st.title
              /\ last_payload_len' = Len(data)
              /\ served' = served \o Tagged(st.anns, range_idx, page_num)
    /\ last_request' = Params
    /\ last_outcome' = "data"
    /\ requested' = TRUE
    /\ page_num' = page_num + 1
    /\ UNCHANGED <<START_DATE, END_DATE, requests_session, pc, driver, quit_calls, navigated, exc,
                   ranges, range_idx, full_ann_list, pageVars, dlVars>>

(***************************************************************************)
(* download_pdf_hybrid (lines 115-152)                                     *)
(***************************************************************************)
\* return f"成功下载: {os.path.basename(filepath)}"
SuccessText(filepath) == <<"success: ">> \o basename(filepath)

\* return f"下载失败: {os.path.basename(filepath)}, 原因: {e}"
FailureText(filepath, e) ==
    <<"failure: ">> \o basename(filepath) \o <<", reason: ">> \o e.msg

\* A handler for requests.exceptions.RequestException only.
download_except_requests(e, filepath) ==
    IF IsInstance(e, "RequestException")
    THEN [kind |-> "return", value |-> FailureText(filepath, e)]
    ELSE [kind |-> "raise", value |-> e]

\* except Exception as e: the outcome of the call when e is raised in the try block
download_except(e, filepath) ==
    IF IsInstance(e, "Exception")
    THEN [kind |-> "return", value |-> FailureText(filepath, e)]
    ELSE [kind |-> "raise", value |-> e]

\* open(filepath, 'ab'): an existing file keeps its content.
OpenAppend(fs, filepath) ==
    [q \in (DOMAIN fs) \cup {filepath} |-> IF q \in DOMAIN fs THEN fs[q] ELSE <<>>]

\* open(filepath, 'wb'): the file exists and is empty
OpenWB(fs, filepath) ==
    [q \in (DOMAIN fs) \cup {filepath} |-> IF q = filepath THEN <<>> ELSE fs[q]]

\* f.write(chunk)
WriteChunk(fs, filepath, chunk) ==
    [fs EXCEPT ![filepath] = Append(@, chunk)]

\* The announcement and the path of the call in progress.
CurAnn  == full_ann_list[i]
CurPath == FilepathOf(CurAnn)

\* A loop that stops at the first failure text.
DlLeaveBreakOnFailure(h) ==
    /\ dpc' = "call"
    /\ session' = <<>>
    /\ response' = <<>>
    /\ written' = 0
    /\ result' = h.value
    /\ i' = IF h.value[1] = "failure: " THEN Len(full_ann_list) + 1 ELSE i + 1
    /\ UNCHANGED <<pc, exc>>

\* download_pdf_hybrid ends with outcome h; batch_download_sequential prints
\* what it returned and moves on, and has no handler for what it raised.
DlLeave(h) ==
    /\ dpc' = "call"
    /\ session' = <<>>
    /\ response' = <<>>
    /\ written' = 0
    /\ IF h.kind = "return"
       THEN /\ result' = h.value
            /\ i' = i + 1
            /\ UNCHANGED <<pc, exc>>
       ELSE /\ RaiseToMain(h.value)
            /\ UNCHANGED <<result, i>>

\* e is raised inside the try block of download_pdf_hybrid.
DlRaise(e) ==
    /\ dl_error' = e
    /\ failures' = failures + 1
    /\ DlLeave(download_except(e, CurPath))

\* driver.get(url)
DlNavigate ==
    /\ pc = "batch" /\ dpc = "call" /\ i <= Len(full_ann_list)
    /\ attempts' = Append(attempts, [url |-> CurAnn.url, filepath |-> CurPath])
    /\ navigated' = Append(navigated, CurAnn.url)
    /\ response' = <<>>
    /\ written' = 0
    /\ dpc' = "cookies"
    /\ UNCHANGED <<START_DATE, END_DATE, requests_session, pc, driver, quit_calls, exc, ranges,
                   range_idx, full_ann_list, fetchVars, pageVars,
                   dir_created, i, session, files, result, dl_error, failures>>

DlNavigateFails ==
    /\ pc = "batch" /\ dpc = "call" /\ i <= Len(full_ann_list)
    /\ attempts' = Append(attempts, [url |-> CurAnn.url, filepath |-> CurPath])
    /\ navigated' = Append(navigated, CurAnn.url)
    /\ DlRaise(WebDriverError)
    /\ UNCHANGED <<START_DATE, END_DATE, requests_session, driver, quit_calls, ranges,
                   range_idx, full_ann_list, fetchVars, pageVars,
                   dir_created, files>>

\* A harvest that is not tested.
DlCookiesUnchecked ==
    /\ pc = "batch" /\ dpc = "cookies"
    /\ \E cookies \in DlCookieLists :
          /\ session' = cookies
          /\ dpc' = "get"
          /\ UNCHANGED <<pc, exc, result, dl_error, failures, i, response, written>>
    /\ UNCHANGED <<START_DATE, END_DATE, requests_session, driver, quit_calls, navigated, ranges,
                   range_idx, full_ann_list, fetchVars, pageVars,
                   dir_created, files, attempts>>

\* cookies = driver.get_cookies(); if not cookies: raise; session with the cookies
DlCookies ==
    /\ pc = "batch" /\ dpc = "cookies"
    /\ \E cookies \in DlCookieLists :
          IF ~ListTruthy(cookies)
          THEN DlRaise(NoDownloadCookie)
          ELSE /\ session' = cookies
               /\ dpc' = "get"
               /\ UNCHANGED <<pc, exc, result, dl_error, failures, i, response, written>>
    /\ UNCHANGED <<START_DATE, END_DATE, requests_session, driver, quit_calls, navigated, ranges,
                   range_idx, full_ann_list, fetchVars, pageVars,
                   dir_created, files, attempts>>

\* session.get(url, stream=True) and raise_for_status(): a 2xx response
DlGet ==
    /\ pc = "batch" /\ dpc = "get"
    /\ \E body \in BodiesOf(CurAnn.url) : response' = body
    /\ dpc' = "open"
    /\ UNCHANGED <<START_DATE, END_DATE, requests_session, pc, driver, quit_calls, navigated, exc,
                   ranges, range_idx, full_ann_list, fetchVars, pageVars,
                   dir_created, i, session, written, files, attempts, result, dl_error,
                   failures>>

DlGetFails ==
    /\ pc = "batch" /\ dpc = "get"
    /\ DlRaise(HttpError)
    /\ UNCHANGED <<START_DATE, END_DATE, requests_session, driver, quit_calls, navigated, ranges,
                   range_idx, full_ann_list, fetchVars, pageVars,
                   dir_created, files, attempts>>

\* with open(filepath, 'wb') as f
DlOpen ==
    /\ pc = "batch" /\ dpc = "open"
    /\ files' = OpenWB(files, CurPath)
    /\ dpc' = "write"
    /\ UNCHANGED <<START_DATE, END_DATE, requests_session, pc, driver, quit_calls, navigated, exc,
                   ranges, range_idx, full_ann_list, fetchVars, pageVars,
                   dir_created, i, session, response, written, attempts, result,
                   dl_error, failures>>

DlOpenFails ==
    /\ pc = "batch" /\ dpc = "open"
    /\ DlRaise(OpenError)
    /\ UNCHANGED <<START_DATE, END_DATE, requests_session, driver, quit_calls, navigated, ranges,
                   range_idx, full_ann_list, fetchVars, pageVars,
                   dir_created, files, attempts>>

\* for chunk in response.iter_content(...): f.write(chunk)
DlWriteChunk ==
    /\ pc = "batch" /\ dpc = "write"
    /\ written < Len(response)
    /\ files' = WriteChunk(files, CurPath, response[written + 1])
    /\ written' = written + 1
    /\ UNCHANGED <<START_DATE, END_DATE, requests_session, pc, driver, quit_calls, navigated, exc,
                   ranges, range_idx, full_ann_list, fetchVars, pageVars,
                   dir_created, i, dpc, session, response, attempts, result,
                   dl_error, failures>>

\* iter_content or f.write raises; the with block closes the file as it is
DlStreamFails ==
    /\ pc = "batch" /\ dpc = "write"
    /\ DlRaise(StreamError)
    /\ UNCHANGED <<START_DATE, END_DATE, requests_session, driver, quit_calls, navigated, ranges,
                   range_idx, full_ann_list, fetchVars, pageVars,
                   dir_created, files, attempts>>

\* the iterator is exhausted: the file is closed and the success text returned
DlSuccess ==
    /\ pc = "batch" /\ dpc = "write"
    /\ written = Len(response)
    /\ dl_error' = NoExc
    /\ failures' = failures
    /\ DlLeave([kind |-> "return", value |-> SuccessText(CurPath)])
    /\ UNCHANGED <<START_DATE, END_DATE, requests_session, driver, quit_calls, navigated, ranges,
                   range_idx, full_ann_list, fetchVars, pageVars,
                   dir_created, files, attempts>>

(***************************************************************************)
(* batch_download_sequential and the end of __main__ (lines 154-171,       *)
(* 249-260)                                                                *)
(***************************************************************************)
\* if full_ann_list: batch_download_sequential(...): os.makedirs, first iteration
StartBatch ==
    /\ pc = "for_range"
    /\ range_idx > Len(ranges.value)
    /\ ListTruthy(full_ann_list)
    /\ dir_created' = TRUE
    /\ i' = 1
    /\ dpc' = "call"
    /\ pc' = "batch"
    /\ UNCHANGED <<START_DATE, END_DATE, requests_session, driver, quit_calls, navigated, exc, ranges,
                   range_idx, full_ann_list, fetchVars, pageVars,
                   session, response, written, files, attempts, result, dl_error,
                   failures>>

\* full_ann_list is empty: nothing to download
SkipBatch ==
    /\ pc = "for_range"
    /\ range_idx > Len(ranges.value)
    /\ ~ListTruthy(full_ann_list)
    /\ pc' = "finally"
    /\ UNCHANGED <<START_DATE, END_DATE, requests_session, driver, quit_calls, navigated, exc, ranges,
                   range_idx, full_ann_list, fetchVars, pageVars, dlVars>>

\* the for loop of batch_download_sequential is exhausted
BatchDone ==
    /\ pc = "batch" /\ dpc = "call" /\ i > Len(full_ann_list)
    /\ pc' = "finally"
    /\ dpc' = "idle"
    /\ UNCHANGED <<START_DATE, END_DATE, requests_session, driver, quit_calls, navigated, exc, ranges,
                   range_idx, full_ann_list, fetchVars, pageVars,
                   dir_created, i, session, response, written, files, attempts, result,
                   dl_error, failures>>

\* A handler that reports the error and resumes the run at the split.
MainExceptResumes ==
    /\ pc = "except"
    /\ pc' = "split"
    /\ UNCHANGED <<START_DATE, END_DATE, requests_session, driver, quit_calls, navigated, exc, ranges,
                   range_idx, full_ann_list, fetchVars, pageVars, dlVars>>

\* except Exception as e: print(...)
MainExcept ==
    /\ pc = "except"
    /\ pc' = "finally"
    /\ UNCHANGED <<START_DATE, END_DATE, requests_session, driver, quit_calls, navigated, exc, ranges,
                   range_idx, full_ann_list, fetchVars, pageVars, dlVars>>

\* driver.quit() at the end of the try block instead of in finally.
ShouldQuitAfterSuccess(drv) == drv = "live" /\ exc = NoExc

\* if driver:
ShouldQuit(drv) == drv = "live"

\* finally: if driver: driver.quit()
MainFinally ==
    /\ pc = "finally"
    /\ IF ShouldQuit(driver)
       THEN driver' = "quit" /\ quit_calls' = quit_calls + 1
       ELSE UNCHANGED <<driver, quit_calls>>
    /\ pc' = "done"
    /\ UNCHANGED <<START_DATE, END_DATE, requests_session, navigated, exc, ranges,
                   range_idx, full_ann_list, fetchVars, pageVars, dlVars>>

Next ==
    \/ CreateDriver \/ CreateDriverFails
    \/ BootstrapGet \/ BootstrapGetFails \/ BootstrapCookies
    \/ MainSplit \/ CallFetch
    \/ FetchRequestFails \/ FetchJsonError \/ FetchBadShape
    \/ FetchEmptyReturn \/ FetchPage
    \/ StartBatch \/ SkipBatch
    \/ DlNavigate \/ DlNavigateFails \/ DlCookies
    \/ DlGet \/ DlGetFails \/ DlOpen \/ DlOpenFails
    \/ DlWriteChunk \/ DlStreamFails \/ DlSuccess
    \/ BatchDone \/ MainExcept \/ MainFinally

Spec == Init /\ [][Next]_vars

\* The run against an endpoint that keeps answering: a request of the paging
\* loop (lines 61-107) is not failed or left unparsed forever, and page numbers
\* above MaxPage carry no data.
SpecLive == Init /\ [][Next]_vars /\ WF_vars(FetchPage \/ FetchEmptyReturn)

(***************************************************************************)
(* generate_yearly_date_ranges on its own: the process at line 236, for    *)
(* every pair of input dates                                               *)
(***************************************************************************)
InitSplit ==
    /\ START_DATE \in InputDates
    /\ END_DATE \in InputDates
    /\ pc = "split"
    /\ driver = "live"
    /\ quit_calls = 0
    /\ navigated = <<EntryUrl>>
    /\ exc = NoExc
    /\ ranges = NotCalled
    /\ range_idx = 0
    /\ full_ann_list = <<>>
    /\ requests_session \in CookieLists \ {<<>>}
    /\ FetchLocalsInit
    /\ PageInit
    /\ DownloadInit

NextSplit == MainSplit

SpecSplit == InitSplit /\ [][NextSplit]_vars

(***************************************************************************)
(* Lines 95-102 on their own: one parsed page with a non-empty payload     *)
(***************************************************************************)
InitExtract ==
    /\ START_DATE \in {<<MAXYEAR - 1, 6, 15>>}
    /\ END_DATE \in {<<MAXYEAR - 1, 12, 31>>}
    /\ pc = "page"
    /\ driver = "live"
    /\ quit_calls = 0
    /\ navigated = <<EntryUrl>>
    /\ exc = NoExc
    /\ ranges = generate_yearly_date_ranges(START_DATE, END_DATE)
    /\ range_idx = 1
    /\ full_ann_list = <<>>
    /\ requests_session \in CookieLists \ {<<>>}
    /\ page_num = 1
    /\ all_announcements = <<>>
    /\ title = TITLE
    /\ last_request = NoRequest
    /\ last_payload_len = -1
    /\ last_outcome = "none"
    /\ requested = FALSE
    /\ served = <<>>
    /\ current_page_data \in {d \in Payloads : ~PageIsEmpty(d)}
    /\ announcements_on_page = <<>>
    /\ DownloadInit

\* announcements_on_page = []; for inner_list in current_page_data: ...
ExtractItems ==
    /\ pc = "page"
    /\ LET st == ExtractPage(current_page_data, title)
       IN  /\ announcements_on_page' = st.anns
           /\ title' = st.title
    /\ pc' = "page_done"
    /\ UNCHANGED <<START_DATE, END_DATE, requests_session, driver, quit_calls, navigated, exc, ranges,
                   range_idx, full_ann_list, page_num, all_announcements,
                   last_request, last_payload_len, last_outcome, requested, served,
                   current_page_data, dlVars>>

NextExtract == ExtractItems

SpecExtract == InitExtract /\ [][NextExtract]_vars

(***************************************************************************)
(* C1                                                                      *)
(***************************************************************************)
\* Order of date strings, field by field.
DateLE(a, b) ==
    \/ a[1] < b[1]
    \/ a[1] = b[1] /\ a[2] < b[2]
    \/ a[1] = b[1] /\ a[2] = b[2] /\ a[3] <= b[3]

\* The calendar day after s.
NextDay(s) ==
    IF s[3] < DaysInMonth(s[1], s[2]) THEN <<s[1], s[2], s[3] + 1>>
    ELSE IF s[2] < 12 THEN <<s[1], s[2] + 1, 1>>
    ELSE <<s[1] + 1, 1, 1>>

\* r is a split of [s, e] into contiguous single-year ranges.
YearlyPartition(r, s, e) ==
    /\ Len(r) >= 1
    /\ r[1][1] = s
    /\ r[Len(r)][2] = e
    /\ \A k \in 1..Len(r) : DateLE(r[k][1], r[k][2]) /\ r[k][1][1] = r[k][2][1]
    /\ \A k \in 2..Len(r) : r[k][1] = NextDay(r[k - 1][2])

\* C1: for every start <= end, generate_yearly_date_ranges returns a non-empty
\* ordered list of contiguous single-year ranges that starts at start, ends at
\* end and covers [start, end] exactly.
C1_SplitPartitions ==
    (ranges.kind # "none" /\ DateLE(START_DATE, END_DATE)) =>
        /\ ranges.kind = "return"
        /\ YearlyPartition(ranges.value, START_DATE, END_DATE)

\* The statement of C1 for the intervals that end before datetime.MAXYEAR,
\* where year_end + timedelta(days=1) is representable.
SplitPartitionsBelowMaxYear ==
    (ranges.kind # "none" /\ DateLE(START_DATE, END_DATE) /\ END_DATE[1] < MAXYEAR) =>
        /\ ranges.kind = "return"
        /\ YearlyPartition(ranges.value, START_DATE, END_DATE)

(***************************************************************************)
(* C2                                                                      *)
(***************************************************************************)
Inverted == ~DateLE(START_DATE, END_DATE)

RECURSIVE RecordsOf(_, _)
RecordsOf(log, r) ==
    IF log = <<>> THEN <<>>
    ELSE (IF Head(log).range = r THEN <<Head(log).ann>> ELSE <<>>)
         \o RecordsOf(Tail(log), r)

\* C3: the paging loop runs on as long as no parsed response had an empty
\* payload, the call returns at the first one, and what it returns (what the
\* caller appends) is the records of the pages parsed before, in page order.
C3_StopsAtFirstEmptyPage ==
    [][ /\ (pc' = "fetch" => last_payload_len' # 0)
        /\ (pc = "fetch" /\ pc' = "for_range") =>
              /\ last_payload_len' = 0
              /\ last_request' = NoRequest
              /\ full_ann_list' = full_ann_list \o RecordsOf(served', range_idx)
      ]_vars

C3_Witness ==
    /\ pc = "for_range"
    /\ range_idx = 2
    /\ last_payload_len = 0
    /\ Len(full_ann_list) = 2
    /\ Len(served) = 2
    /\ served[1].page = 1
    /\ served[2].page = 2

(***************************************************************************)
(* C4                                                                      *)
(***************************************************************************)
\* text is the failure text for the file name: the name, then a reason.
IsFailureFor(text, name) ==
    /\ Len(text) >= Len(name) + 3
    /\ text[1] = "failure: "
    /\ SubSeq(text, 2, Len(name) + 1) = name
    /\ text[Len(name) + 2] = ", reason: "

IsSuccessFor(text, name) == text = <<"success: ">> \o name

\* The base file name of the announcement's destination.
BaseNameOf(ann) == clean_filename(ann.title) \o <<".pdf">>

\* A step in which download_pdf_hybrid returns to the loop.
DlReturns == pc = "batch" /\ i' = i + 1

\* C4: download_pdf_hybrid never raises to its caller; when a stage failed it
\* returns the failure text with the destination's base file name and a
\* non-empty reason, and it returns the success text only when none failed.
C4_DownloadNeverRaises ==
    [][ /\ (pc = "batch" => pc' # "except")
        /\ (pc = "batch" /\ failures' # failures) => (DlReturns /\ dl_error' # NoExc)
        /\ DlReturns =>
              IF dl_error' # NoExc
              THEN IsFailureFor(result', BaseNameOf(CurAnn))
              ELSE /\ IsSuccessFor(result', BaseNameOf(CurAnn))
                   /\ dpc = "write" /\ written = Len(response)
      ]_vars

C4_Witness ==
    /\ pc = "batch"
    /\ dpc = "call"
    /\ dl_error.cls = "WebDriverException"
    /\ result[1] = "failure: "
    /\ i = 2

(***************************************************************************)
(* C5                                                                      *)
(***************************************************************************)
\* The k-th call was made for the k-th announcement.
AttemptIsFor(k) ==
    /\ attempts[k].url = full_ann_list[k].url
    /\ attempts[k].filepath = FilepathOf(full_ann_list[k])

\* C5: in the download phase the k-th call is for the k-th announcement,
\* whatever the earlier calls returned, and the phase ends only after a call
\* for each of them.
C5_EveryAnnouncementAttempted ==
    /\ pc = "batch" =>
          /\ Len(attempts) = (IF dpc = "call" THEN i - 1 ELSE i)
          /\ Len(attempts) <= Len(full_ann_list)
          /\ \A k \in 1..Len(attempts) : AttemptIsFor(k)
    /\ (pc \in {"finally", "done"} /\ dir_created) =>
          /\ Len(attempts) = Len(full_ann_list)
          /\ \A k \in 1..Len(attempts) : AttemptIsFor(k)

C5_Witness ==
    /\ pc = "done"
    /\ Len(full_ann_list) = 2
    /\ Len(attempts) = 2
    /\ failures = 2

(***************************************************************************)
(* C6                                                                      *)
(***************************************************************************)
\* C6: once the browser was created, the run ends with driver.quit() called
\* exactly once, and nothing is browsed or downloaded after it.
C6_BrowserClosedOnce ==
    [][ /\ quit_calls' <= 1
        /\ (pc' = "done" /\ driver' # "none") => (driver' = "quit" /\ quit_calls' = 1)
        /\ driver = "quit" =>
              /\ driver' = "quit"
              /\ UNCHANGED <<navigated, attempts, files, requested>>
      ]_vars

C6_Witness ==
    /\ pc = "done"
    /\ driver = "quit"
    /\ quit_calls = 1
    /\ exc.cls = "AttributeError"
    /\ served # <<>>

(***************************************************************************)
(* C7                                                                      *)
(***************************************************************************)
\* The files of the output directory.
OutputFiles == DOMAIN files

\* C7: after a run in which every download succeeded, the output directory
\* holds as many files as announcements were collected.
C7_OneFilePerAnnouncement ==
    (pc = "done" /\ exc = NoExc /\ dir_created /\ failures = 0) =>
        Cardinality(OutputFiles) = Len(full_ann_list)

(***************************************************************************)
(* C8                                                                      *)
(***************************************************************************)
\* (r1, p1) is not after (r2, p2) in range order, then page order.
NotAfter(a, b) == a.range < b.range \/ (a.range = b.range /\ a.page <= b.page)

\* C8: the records are extracted in range order and page order; the k-th
\* download is for the k-th extracted record, none skipped, repeated or moved;
\* and no download starts before the fetch of the last range has returned.
C8_DownloadOrderIsFetchOrder ==
    /\ \A k \in 2..Len(served) : NotAfter(served[k - 1], served[k])
    /\ Len(attempts) <= Len(served)
    /\ \A k \in 1..Len(attempts) :
          /\ attempts[k].url = served[k].ann.url
          /\ attempts[k].filepath = path_join(target_dir, BaseNameOf(served[k].ann))
    /\ (pc \in {"finally", "done"} /\ dir_created) => Len(attempts) = Len(served)
    /\ attempts # <<>> =>
          /\ ranges.kind = "return"
          /\ range_idx = Len(ranges.value) + 1
          /\ pc \in {"batch", "finally", "done"}

C8_Witness ==
    /\ pc = "done"
    /\ Len(attempts) = 2
    /\ served[1].range = 1
    /\ served[2].range = 2
    /\ attempts[1].url # attempts[2].url

(***************************************************************************)
(* C9                                                                      *)
(***************************************************************************)
\* C9: when download_pdf_hybrid returns the success text, the file at the
\* destination holds the response body, chunk for chunk; when the stream or a
\* write fails, it returns the failure text and the file keeps the chunks
\* written so far.
C9_SuccessMeansWholeBody ==
    [][ DlReturns =>
          /\ IsSuccessFor(result', BaseNameOf(CurAnn)) =>
                /\ CurPath \in DOMAIN files'
                /\ files'[CurPath] = response
          /\ (dpc = "write" /\ dl_error' # NoExc) =>
                /\ IsFailureFor(result', BaseNameOf(CurAnn))
                /\ files'[CurPath] = SubSeq(response, 1, written)
      ]_vars

C9_Witness ==
    /\ pc = "batch"
    /\ dpc = "call"
    /\ Len(attempts) = 2
    /\ attempts[1].filepath # attempts[2].filepath
    /\ failures = 1
    /\ dl_error.cls = "ChunkedEncodingError"
    /\ attempts[1].filepath \in DOMAIN files
    /\ Len(files[attempts[1].filepath]) = 2
    /\ attempts[2].filepath \in DOMAIN files
    /\ Len(files[attempts[2].filepath]) = 1

(***************************************************************************)
(* C10                                                                     *)
(***************************************************************************)
\* All items of a payload, inner list after inner list.
RECURSIVE Flatten(_)
Flatten(data) == IF data = <<>> THEN <<>> ELSE Head(data) \o Flatten(Tail(data))

\* Both fields are present and non-empty.
HasTitleAndUrl(item) ==
    /\ "TITLE" \in DOMAIN item /\ item["TITLE"] # <<>>
    /\ "URL" \in DOMAIN item /\ item["URL"] # <<>>

\* The announcement an item stands for.
AnnouncementOf(item) ==
    [title |-> item["TITLE"], url |-> <<"https://static.sse.com.cn">> \o item["URL"]]

\* The announcements of the items of a payload that have both fields.
ExpectedOnPage(data) ==
    LET kept == SelectSeq(Flatten(data), HasTitleAndUrl)
    IN  [k \in 1..Len(kept) |-> AnnouncementOf(kept[k])]

\* C10: the records of a page are the announcements of exactly its items with
\* both TITLE and URL present and non-empty, in order, across all inner lists,
\* each url being the static host followed by the item's URL.
C10_AcceptsItemsWithTitleAndUrl ==
    pc = "page_done" => announcements_on_page = ExpectedOnPage(current_page_data)

C10_Witness ==
    /\ pc = "page_done"
    /\ Len(current_page_data) = 2
    /\ Len(current_page_data[1]) = 1
    /\ ~HasTitleAndUrl(current_page_data[1][1])
    /\ Len(announcements_on_page) = 1

(***************************************************************************)
(* C11                                                                     *)
(***************************************************************************)
\* C11: when the cookie harvest after the entry navigation is empty, the run
\* is fatal: the ranges are not computed, no listing request is issued, no
\* download is attempted, no output directory or file is created, and the
\* run goes through the error report to the release of the browser.
C11_NoInitialCookieIsFatal ==
    exc = NoInitialCookie =>
        /\ pc \in {"except", "finally", "done"}
        /\ navigated = <<EntryUrl>>
        /\ requests_session = <<>>
        /\ ranges = NotCalled
        /\ ~requested
        /\ attempts = <<>>
        /\ ~dir_created
        /\ files = <<>>
        /\ pc = "done" => (driver = "quit" /\ quit_calls = 1)

C11_Witness ==
    /\ exc = NoInitialCookie
    /\ pc = "done"
    /\ driver = "quit"
    /\ quit_calls = 1

(***************************************************************************)
(* C12                                                                     *)
(***************************************************************************)
\* The call's last request carries the dates and the security code the call
\* was given and the page number it was issued for, the first one page 1.
CarriesRangeAndPage ==
    /\ last_request.START_DATE = ranges.value[range_idx][1]
    /\ last_request.END_DATE = ranges.value[range_idx][2]
    /\ last_request.SECURITY_CODE = DEFAULT_SECURITY_CODE
    /\ last_request.beginPage = last_request.pageNo
    /\ last_request.pageNo \in {page_num - 1, page_num}
    /\ last_request.pageNo >= 1

\* C12: every listing request of a call carries the call's arguments: the
\* dates, the security code, beginPage = pageNo = the page number, and as
\* TITLE the title filter the caller passed, on the first request and on
\* every later one.
C12_RequestCarriesArguments ==
    (pc = "fetch" /\ last_request # NoRequest) =>
        /\ CarriesRangeAndPage
        /\ last_request.TITLE = TITLE

\* The statement of C12 without the title: it holds of every request.
RequestCarriesRangeAndPage ==
    /\ (pc = "fetch" /\ last_request # NoRequest) => CarriesRangeAndPage
    /\ (pc = "fetch" /\ last_outcome = "none") => page_num = 1

\* The title the call was given is sent until a page with items was processed.
TitleSentBeforeFirstItem ==
    (pc = "fetch" /\ last_request # NoRequest /\ last_payload_len = -1) =>
        last_request.TITLE = TITLE

(***************************************************************************)
(* C13                                                                     *)
(***************************************************************************)
\* A step in which a listing request of the call in progress fails.
RequestFailed == pc = "fetch" /\ last_outcome' = "request_error"

\* C13: a request-level failure while paging does not end the call and leaves
\* the page number, the accumulated list and every other variable of the loop
\* as they were, so the next request is for the same page and no count of
\* retries is kept; the page number advances by one, and only in a step in
\* which a request for that page returned a response.
C13_RequestFailureRetriesSamePage ==
    [][ /\ RequestFailed =>
              /\ pc' = "fetch"
              /\ last_request' = Params
              /\ UNCHANGED <<page_num, all_announcements, title, full_ann_list,
                             range_idx, exc, served, last_payload_len>>
        /\ (pc = "fetch" /\ pc' = "fetch" /\ page_num' # page_num) =>
              /\ page_num' = page_num + 1
              /\ last_outcome' \in {"json_error", "data"}
              /\ last_request'.pageNo = page_num
      ]_vars

C13_Witness ==
    /\ pc = "fetch"
    /\ last_outcome = "request_error"
    /\ page_num = 2
    /\ last_request.pageNo = 2
    /\ Len(all_announcements) = 1

(***************************************************************************)
(* C14                                                                     *)
(***************************************************************************)
\* A step in which the response to a listing request does not parse.
JsonDecodeFailed == pc = "fetch" /\ last_outcome' = "json_error"

\* C14: when a page's response does not parse, the call goes on with the next
\* page number: the page number advances by exactly one, nothing is added to
\* the results, the call neither ends nor raises; and since each request is
\* for the current page number, which never decreases, the page is not
\* requested again.
C14_JsonErrorSkipsPage ==
    [][ /\ JsonDecodeFailed =>
              /\ pc' = "fetch"
              /\ page_num' = page_num + 1
              /\ UNCHANGED <<all_announcements, full_ann_list, range_idx, exc,
                             served, title, last_payload_len>>
        /\ (pc = "fetch" /\ pc' = "fetch") =>
              /\ last_request'.pageNo = page_num
              /\ page_num' >= page_num
      ]_vars

C14_Witness ==
    /\ pc = "fetch"
    /\ last_outcome = "json_error"
    /\ page_num = 3
    /\ last_request.pageNo = 2
    /\ Len(all_announcements) = 1

(***************************************************************************)
(* C15                                                                     *)
(***************************************************************************)
\* Every parsed body has the shape of a listing answer.
BodiesAreListings == [](last_outcome # "bad_shape")

\* C15: against an endpoint whose requests eventually succeed with a listing
\* answer, and that has data on finitely many pages only, every call of the
\* paging loop returns; the call returns only in a step whose parsed payload is
\* empty, so a step in which the request fails leaves the call in the loop,
\* and no download is made while a call is in progress.
C15_PagingReturns ==
    /\ BodiesAreListings => ((pc = "fetch") ~> (pc = "for_range"))
    /\ [][ /\ (pc = "fetch" /\ pc' = "for_range") => last_outcome' = "empty"
           /\ (pc = "fetch" /\ last_outcome' \in {"request_error", "json_error", "data"})
                 => pc' = "fetch"
           /\ pc' = "fetch" => (attempts' = <<>> /\ ~dir_created')
         ]_vars

C15_Witness ==
    /\ pc = "batch"
    /\ dpc = "cookies"
    /\ last_outcome = "empty"
    /\ range_idx = 3
    /\ Len(full_ann_list) = 2

(***************************************************************************)
(* C16                                                                     *)
(***************************************************************************)
\* C16: within one call of download_pdf_hybrid the browser is navigated to
\* the url first, the cookies are harvested next, the call's own client gets
\* those cookies, the GET of the same url is issued only with a non-empty
\* harvest, and the destination is opened only after the GET returned; the
\* file system changes only at the open and the writes, so a failure at the
\* navigation, at the harvest or at the GET leaves the destination as it was;
\* and the listing client is not changed by a download.
C16_DownloadStepsInOrder ==
    [][ pc = "batch" =>
          /\ requests_session' = requests_session
          /\ (dpc' = "cookies" /\ dpc # "cookies") =>
                /\ dpc = "call"
                /\ navigated' = Append(navigated, CurAnn.url)
                /\ session' = <<>>
          /\ (dpc' = "get" /\ dpc # "get") =>
                /\ dpc = "cookies"
                /\ session' # <<>>
                /\ session' # requests_session
                /\ navigated' = navigated
          /\ (dpc' = "open" /\ dpc # "open") =>
                /\ dpc = "get"
                /\ session # <<>>
                /\ response' \in BodiesOf(navigated[Len(navigated)])
                /\ response' \in BodiesOf(CurAnn.url)
          /\ (dpc' = "write" /\ dpc # "write") =>
                /\ dpc = "open"
                /\ CurPath \in DOMAIN files'
          /\ files' # files =>
                /\ dpc \in {"open", "write"}
                /\ \A q \in DOMAIN files : q # CurPath => (q \in DOMAIN files' /\ files'[q] = files[q])
          /\ (failures' # failures /\ dpc \in {"call", "cookies", "get"}) =>
                files' = files
      ]_vars

C16_Witness ==
    /\ pc = "batch"
    /\ dpc = "call"
    /\ Len(attempts) = 2
    /\ attempts[1].filepath = attempts[2].filepath
    /\ failures = 1
    /\ dl_error = HttpError
    /\ attempts[1].filepath \in DOMAIN files
    /\ Len(files[attempts[1].filepath]) = 2

====
